---------------------------- MODULE Spec2Model ----------------------------
(***************************************************************************)
(* A model of app.py, the Streamlit voice/text assistant: the command      *)
(* router (process_command), the provider adapters, the interaction        *)
(* recorder (save_to_s3 / load_history) and the session surface (main and  *)
(* recognize_speech).                                                      *)
(*                                                                         *)
(* Python strings are TLA+ strings; the str methods the code uses (lower,  *)
(* strip, replace, the `in` substring test, strftime) are computed         *)
(* character by character.                                                 *)
(***************************************************************************)
EXTENDS Integers, Sequences, FiniteSets, TLC

VARIABLES
    cfg,                \* module globals set by initialize_services / os.getenv
    now,                \* the local wall clock read by datetime.now(), in seconds
    s3now,              \* the storage service's clock, stamps LastModified, in seconds
    bucket,             \* the objects under interactions/: key -> [body, LastModified]
    pc,                 \* position of the call under check
    command,            \* argument of the process_command call under check
    outcome,            \* what the external provider does when it is called
    result,             \* what process_command did: response, rule, adapter and external calls
    listening,          \* st.session_state.listening
    microphone_enabled, \* st.session_state.microphone_enabled
    history,            \* st.session_state.history
    textValue,          \* the value held by the "Type command:" widget
    rerunRequested,     \* a script run ended in st.rerun()
    trigger,            \* the UI event that started the last script run
    log,                \* what the last script run did, in order
    saved,              \* every Interaction a save_to_s3 that returned True has stored
    lastOp              \* the last recorder call: its name, arguments and return value

vars == <<cfg, now, s3now, bucket, pc, command, outcome, result, listening,
          microphone_enabled, history, textValue, rerunRequested, trigger, log,
          saved, lastOp>>

routerVars == <<pc, command, outcome, result>>
sessionVars == <<listening, microphone_enabled, history, textValue, rerunRequested,
                 trigger, log>>
recorderVars == <<saved, lastOp>>

----------------------------------------------------------------------------
(* Bounds *)

MaxWords == 3
MaxClock == 1

----------------------------------------------------------------------------
(* Python str operations *)

Min(a, b) == IF a < b THEN a ELSE b

CharAt(s, i) == SubSeq(s, i, i)

Whitespace == {" ", "\t", "\n"}

Upper == <<"A", "B", "C", "D", "E", "F", "G", "H", "I", "J", "K", "L", "M",
           "N", "O", "P", "Q", "R", "S", "T", "U", "V", "W", "X", "Y", "Z">>
LowerOf == <<"a", "b", "c", "d", "e", "f", "g", "h", "i", "j", "k", "l", "m",
             "n", "o", "p", "q", "r", "s", "t", "u", "v", "w", "x", "y", "z">>

LowerChar(c) ==
    IF \E i \in 1..26 : Upper[i] = c
    THEN LowerOf[CHOOSE i \in 1..26 : Upper[i] = c]
    ELSE c

RECURSIVE StrLower(_)
StrLower(s) ==
    IF Len(s) = 0 THEN ""
    ELSE LowerChar(CharAt(s, 1)) \o StrLower(SubSeq(s, 2, Len(s)))

RECURSIVE LStrip(_)
LStrip(s) ==
    IF Len(s) > 0 /\ CharAt(s, 1) \in Whitespace
    THEN LStrip(SubSeq(s, 2, Len(s)))
    ELSE s

RECURSIVE RStrip(_)
RStrip(s) ==
    IF Len(s) > 0 /\ CharAt(s, Len(s)) \in Whitespace
    THEN RStrip(SubSeq(s, 1, Len(s) - 1))
    ELSE s

StrStrip(s) == RStrip(LStrip(s))

\* sub in s
StrIn(sub, s) ==
    \E i \in 1..(Len(s) - Len(sub) + 1) : SubSeq(s, i, i + Len(sub) - 1) = sub

\* s.replace(old, new): left to right, non-overlapping (old is never empty here)
RECURSIVE StrReplace(_, _, _)
StrReplace(s, old, new) ==
    IF Len(s) < Len(old) THEN s
    ELSE IF SubSeq(s, 1, Len(old)) = old
         THEN new \o StrReplace(SubSeq(s, Len(old) + 1, Len(s)), old, new)
         ELSE CharAt(s, 1) \o StrReplace(SubSeq(s, 2, Len(s)), old, new)

Digits == <<"0", "1", "2", "3", "4", "5", "6", "7", "8", "9">>

\* %H, %M, %S, %d: two digits, zero padded
TwoDigits(n) == Digits[((n \div 10) % 10) + 1] \o Digits[(n % 10) + 1]

\* The clock counts seconds from 2024-01-01 00:00:00 local time and stays in
\* January 2024.
Hour(t) == (t \div 3600) % 24
Minute(t) == (t \div 60) % 60
Second(t) == t % 60
DayOfMonth(t) == (t \div 86400) + 1

\* strftime('%H:%M')
FormatTime(t) == TwoDigits(Hour(t)) \o ":" \o TwoDigits(Minute(t))

\* strftime('%B %d, %Y')
FormatDate(t) == "January " \o TwoDigits(DayOfMonth(t)) \o ", 2024"

\* strftime("%Y%m%d_%H%M%S")
FormatTimestamp(t) ==
    "202401" \o TwoDigits(DayOfMonth(t)) \o "_" \o TwoDigits(Hour(t))
        \o TwoDigits(Minute(t)) \o TwoDigits(Second(t))

----------------------------------------------------------------------------
(* Exceptions: what a try block produces, and which except clause takes it *)

Ret(v) == [kind |-> "return", value |-> v]
Raise(c) == [kind |-> "raise", value |-> c]

\* The classes an exception is an instance of.  Streamlit's RerunException
\* derives from BaseException, not from Exception.
Bases(c) ==
    CASE c \in {"Timeout", "ConnectionError", "HTTPError"}
            -> {c, "RequestException", "OSError", "Exception", "BaseException"}
      [] c \in {"DisambiguationError", "PageError"}
            -> {c, "WikipediaException", "Exception", "BaseException"}
      [] c \in {"IndexError", "KeyError"}
            -> {c, "LookupError", "Exception", "BaseException"}
      [] c \in {"WaitTimeoutError", "UnknownValueError", "RequestError",
                "SpotifyException", "WebbrowserError", "WikipediaException",
                "OSError", "ClientError"}
            -> {c, "Exception", "BaseException"}
      [] c = "RerunException"
            -> {c, "ScriptControlException", "BaseException"}
      [] OTHER -> {c, "BaseException"}

IsInstance(c, cls) == cls \in Bases(c)

\* str(e)
StrOf(c) == "<" \o c \o ">"

RECURSIVE StrJoin(_, _)
StrJoin(sep, xs) ==
    IF Len(xs) = 0 THEN ""
    ELSE IF Len(xs) = 1 THEN xs[1]
    ELSE xs[1] \o sep \o StrJoin(sep, Tail(xs))

----------------------------------------------------------------------------
(* Provider adapters.  Each takes its argument and what the provider does   *)
(* (out), and gives what the function produced (res) and the external calls *)
(* it made (calls).                                                         *)

Outcomes == {"ok", "transport", "http_error", "malformed", "app_error",
             "not_found", "ambiguous"}

\* e.options of a DisambiguationError
DisambiguationOptions == <<"Mercury (planet)", "Mercury (element)",
                           "Mercury (mythology)", "Mercury Records">>

\* The statements of get_weather's try block
GetWeatherBody(city, out) ==
    CASE out = "transport" -> Raise("Timeout")
      [] out \in {"http_error", "not_found"} -> Raise("HTTPError")
      [] out = "app_error" -> Ret("Weather error: " \o "city not found")
      [] out = "malformed" -> Raise("IndexError")
      [] OTHER -> Ret("Weather in " \o city \o ": clear sky. Temperature: 21C, "
                      \o "feels like 20C. Humidity: 40%")

\* get_weather with only its first except clause
GetWeatherExceptRequestOnly(r) ==
    IF r.kind = "return" THEN r
    ELSE IF IsInstance(r.value, "RequestException")
         THEN Ret("Error fetching weather: " \o StrOf(r.value))
    ELSE r

\* The except clauses of get_weather, in order
GetWeatherExcept(r) ==
    IF r.kind = "return" THEN r
    ELSE IF IsInstance(r.value, "RequestException")
         THEN Ret("Error fetching weather: " \o StrOf(r.value))
    ELSE IF IsInstance(r.value, "Exception")
         THEN Ret("Error processing weather data: " \o StrOf(r.value))
    ELSE r

get_weather(city, out) ==
    IF ~cfg.weather_key
    THEN [res |-> Ret("Weather API not configured"), calls |-> <<>>]
    ELSE [res |-> GetWeatherExcept(GetWeatherBody(city, out)),
          calls |-> << <<"requests.get", city>> >>]

SearchWikipediaBody(query, out) ==
    CASE out = "ambiguous" -> Raise("DisambiguationError")
      [] out = "not_found" -> Raise("PageError")
      [] out = "transport" -> Raise("ConnectionError")
      [] out = "http_error" -> Raise("HTTPError")
      [] out = "malformed" -> Raise("KeyError")
      [] out = "app_error" -> Raise("WikipediaException")
      [] OTHER -> Ret("Summary of " \o query \o ".")

SearchWikipediaExcept(r) ==
    IF r.kind = "return" THEN r
    ELSE IF IsInstance(r.value, "DisambiguationError")
         THEN Ret("Multiple matches. Be more specific. Options: "
                  \o StrJoin(", ", SubSeq(DisambiguationOptions, 1,
                                          Min(3, Len(DisambiguationOptions))))
                  \o "...")
    ELSE IF IsInstance(r.value, "PageError")
         THEN Ret("No information found. Try different terms.")
    ELSE IF IsInstance(r.value, "Exception")
         THEN Ret("Wikipedia error: " \o StrOf(r.value))
    ELSE r

search_wikipedia(query, out) ==
    [res |-> SearchWikipediaExcept(SearchWikipediaBody(query, out)),
     calls |-> << <<"wikipedia.summary", query>> >>]

\* The statements of play_spotify's try block, with the calls they reach
PlaySpotifyBody(song_name, out) ==
    LET search == <<"sp.search", song_name>>
        play == <<"sp.start_playback", song_name>>
    IN  CASE out \in {"transport", "http_error"}
                -> [res |-> Raise("SpotifyException"), calls |-> <<search>>]
          [] out = "malformed"
                -> [res |-> Raise("KeyError"), calls |-> <<search>>]
          [] out = "not_found"
                -> [res |-> Ret("Song not found."), calls |-> <<search>>]
          [] out = "app_error"
                -> [res |-> Raise("SpotifyException"), calls |-> <<search, play>>]
          [] OTHER
                -> [res |-> Ret("Now playing: " \o song_name \o " by Artist"),
                    calls |-> <<search, play>>]

PlaySpotifyExcept(r) ==
    IF r.kind = "return" THEN r
    ELSE IF IsInstance(r.value, "Exception")
         THEN Ret("Spotify error: " \o StrOf(r.value))
    ELSE r

play_spotify(song_name, out) ==
    IF ~cfg.sp
    THEN [res |-> Ret("Spotify not connected"), calls |-> <<>>]
    ELSE LET b == PlaySpotifyBody(song_name, out)
         IN  [res |-> PlaySpotifyExcept(b.res), calls |-> b.calls]

SearchGoogleBody(query, out) ==
    IF out \in {"transport", "http_error", "malformed", "app_error"}
    THEN Raise("WebbrowserError")
    ELSE Ret("Searching Google for: " \o query)

SearchGoogleExcept(r) ==
    IF r.kind = "return" THEN r
    ELSE IF IsInstance(r.value, "Exception")
         THEN Ret("Search error: " \o StrOf(r.value))
    ELSE r

search_google(query, out) ==
    [res |-> SearchGoogleExcept(SearchGoogleBody(query, out)),
     calls |-> << <<"pwt.search", query>> >>]

----------------------------------------------------------------------------
(* The command router *)

\* A branch that answers by itself
Answer(rule, text) ==
    [res |-> Ret(text), rule |-> rule, adapter |-> <<>>, calls |-> <<>>]

\* A branch that returns what an adapter returns
Delegate(rule, fn, arg, a) ==
    [res |-> a.res, rule |-> rule, adapter |-> << <<fn, arg>> >>, calls |-> a.calls]

\* elif "weather" in command
WeatherBranch(c, out) ==
    LET city == StrStrip(StrReplace(StrReplace(c, "weather", ""), "in", ""))
        arg == IF city # "" THEN city ELSE "New York"
    IN  Delegate("weather", "get_weather", arg, get_weather(arg, out))

\* elif "wikipedia" in command or "wiki" in command
WikipediaBranch(c, out) ==
    LET query == StrStrip(StrReplace(StrReplace(c, "wikipedia", ""), "wiki", ""))
    IN  IF query # ""
        THEN Delegate("wikipedia", "search_wikipedia", query,
                      search_wikipedia(query, out))
        ELSE Answer("wikipedia", "Specify a search term")

\* elif "play" in command and ("song" in command or "music" in command)
MusicBranch(c, out) ==
    LET song == StrStrip(StrReplace(StrReplace(StrReplace(c, "play", ""),
                                               "song", ""), "music", ""))
    IN  IF song # ""
        THEN Delegate("music", "play_spotify", song, play_spotify(song, out))
        ELSE Answer("music", "Specify a song")

\* elif "search" in command and "google" in command
SearchBranch(c, out) ==
    LET query == StrStrip(StrReplace(StrReplace(c, "search", ""), "google", ""))
    IN  IF query # ""
        THEN Delegate("search", "search_google", query, search_google(query, out))
        ELSE Answer("search", "Specify a search")

\* else
DefaultBranch(c, out) == Delegate("default", "search_google", c, search_google(c, out))

\* RouteCommand with the music rule tested before the weather rule
RouteCommandMusicFirst(c, out) ==
    IF StrIn("hello", c) \/ StrIn("hi", c) \/ StrIn("hey", c)
    THEN Answer("greeting", "Hello! How can I help?")
    ELSE IF StrIn("time", c)
    THEN Answer("time", "The time is " \o FormatTime(now))
    ELSE IF StrIn("date", c)
    THEN Answer("date", "Today is " \o FormatDate(now))
    ELSE IF StrIn("play", c) /\ (StrIn("song", c) \/ StrIn("music", c))
    THEN MusicBranch(c, out)
    ELSE IF StrIn("weather", c)
    THEN WeatherBranch(c, out)
    ELSE IF StrIn("wikipedia", c) \/ StrIn("wiki", c)
    THEN WikipediaBranch(c, out)
    ELSE IF StrIn("search", c) /\ StrIn("google", c)
    THEN SearchBranch(c, out)
    ELSE DefaultBranch(c, out)

\* The if/elif chain on the normalized command
RouteCommand(c, out) ==
    IF StrIn("hello", c) \/ StrIn("hi", c) \/ StrIn("hey", c)
    THEN Answer("greeting", "Hello! How can I help?")
    ELSE IF StrIn("time", c)
    THEN Answer("time", "The time is " \o FormatTime(now))
    ELSE IF StrIn("date", c)
    THEN Answer("date", "Today is " \o FormatDate(now))
    ELSE IF StrIn("weather", c)
    THEN WeatherBranch(c, out)
    ELSE IF StrIn("wikipedia", c) \/ StrIn("wiki", c)
    THEN WikipediaBranch(c, out)
    ELSE IF StrIn("play", c) /\ (StrIn("song", c) \/ StrIn("music", c))
    THEN MusicBranch(c, out)
    ELSE IF StrIn("search", c) /\ StrIn("google", c)
    THEN SearchBranch(c, out)
    ELSE DefaultBranch(c, out)

\* command.lower().strip()
Normalize(cmd) == StrStrip(StrLower(cmd))

\* process_command without the test that follows the normalization
process_commandNoBlankTest(cmd, out) ==
    IF cmd = ""
    THEN Answer("invalid", "Please provide a valid command")
    ELSE RouteCommand(Normalize(cmd), out)

\* process_command(command), command a str
process_command(cmd, out) ==
    IF cmd = ""
    THEN Answer("invalid", "Please provide a valid command")
    ELSE IF Normalize(cmd) = ""
         THEN Answer("blank", "I didn't catch that. Please try again.")
         ELSE RouteCommand(Normalize(cmd), out)

----------------------------------------------------------------------------
(* The interaction recorder *)

\* The characters json.dumps escapes, with their escape letters
JsonEscapeChar(ch) ==
    CASE ch = "\"" -> "\\\""
      [] ch = "\\" -> "\\\\"
      [] ch = "\n" -> "\\n"
      [] ch = "\t" -> "\\t"
      [] OTHER -> ch

JsonUnescapeChar(ch) ==
    CASE ch = "n" -> "\n"
      [] ch = "t" -> "\t"
      [] OTHER -> ch

RECURSIVE JsonEscape(_, _)
JsonEscape(s, i) ==
    IF i > Len(s) THEN ""
    ELSE JsonEscapeChar(CharAt(s, i)) \o JsonEscape(s, i + 1)

JsonString(s) == "\"" \o JsonEscape(s, 1) \o "\""

\* json.dumps(interaction)
JsonDumps(d) ==
    "{" \o JsonString("timestamp") \o ": " \o JsonString(d.timestamp) \o ", "
        \o JsonString("input") \o ": " \o JsonString(d.input) \o ", "
        \o JsonString("response") \o ": " \o JsonString(d.response) \o "}"

\* The string literal that opens at s[i - 1]: its value and the index after
\* its closing quote
RECURSIVE JsonReadString(_, _, _)
JsonReadString(s, i, acc) ==
    IF i > Len(s) THEN [value |-> acc, next |-> i]
    ELSE IF CharAt(s, i) = "\"" THEN [value |-> acc, next |-> i + 1]
    ELSE IF CharAt(s, i) = "\\"
         THEN JsonReadString(s, i + 2, acc \o JsonUnescapeChar(CharAt(s, i + 1)))
    ELSE JsonReadString(s, i + 1, acc \o CharAt(s, i))

\* The string literals of s from index i on, in order
RECURSIVE JsonStrings(_, _)
JsonStrings(s, i) ==
    IF i > Len(s) THEN <<>>
    ELSE IF CharAt(s, i) = "\""
         THEN LET r == JsonReadString(s, i + 1, "")
              IN  <<r.value>> \o JsonStrings(s, r.next)
    ELSE JsonStrings(s, i + 1)

\* json.loads(body) of an object of string members
JsonLoads(body) ==
    LET t == JsonStrings(body, 1)
        Member(k) == t[(CHOOSE i \in 1..Len(t) : i % 2 = 1 /\ t[i] = k) + 1]
    IN  [timestamp |-> Member("timestamp"), input |-> Member("input"),
         response |-> Member("response")]

\* Order of object keys in a listing: by their characters ("_", "/" and "."
\* aside, the keys written here differ in digits only)
KeyChars == <<".", "/", "0", "1", "2", "3", "4", "5", "6", "7", "8", "9", "_">>
CharRank(ch) ==
    IF \E i \in 1..Len(KeyChars) : KeyChars[i] = ch
    THEN CHOOSE i \in 1..Len(KeyChars) : KeyChars[i] = ch
    ELSE Len(KeyChars) + 1

RECURSIVE StrLess(_, _, _)
StrLess(a, b, i) ==
    IF i > Len(b) THEN FALSE
    ELSE IF i > Len(a) THEN TRUE
    ELSE IF CharAt(a, i) = CharAt(b, i) THEN StrLess(a, b, i + 1)
    ELSE CharRank(CharAt(a, i)) < CharRank(CharAt(b, i))

\* The objects of b in ascending key order (keys are unique)
RECURSIVE InsertByKey(_, _)
InsertByKey(x, xs) ==
    IF xs = <<>> THEN <<x>>
    ELSE IF StrLess(x.Key, Head(xs).Key, 1) THEN <<x>> \o xs
    ELSE <<Head(xs)>> \o InsertByKey(x, Tail(xs))

RECURSIVE SortByKey(_)
SortByKey(S) ==
    IF S = {} THEN <<>>
    ELSE LET x == CHOOSE x \in S : TRUE IN InsertByKey(x, SortByKey(S \ {x}))

\* Insert x, which stood before every element of xs, in xs sorted by
\* descending LastModified: x goes before the first element not newer than it
RECURSIVE InsertNewest(_, _)
InsertNewest(x, xs) ==
    IF xs = <<>> THEN <<x>>
    ELSE IF Head(xs).LastModified > x.LastModified
         THEN <<Head(xs)>> \o InsertNewest(x, Tail(xs))
    ELSE <<x>> \o xs

\* One page of a listing holds at most this many keys
ListMaxKeys == 1000

\* s3.list_objects_v2(Prefix="interactions/")['Contents']: the first page, in
\* ascending key order
ListObjectsV2(b) ==
    LET all == SortByKey(b)
    IN  SubSeq(all, 1, Min(Len(all), ListMaxKeys))

\* s3.put_object: the object replaces the one that has its key
PutObject(b, key, body) ==
    {o \in b : o.Key # key}
        \cup {[Key |-> key, Body |-> body, LastModified |-> s3now]}

NoInteraction == [timestamp |-> "", input |-> "", response |-> ""]

\* save_to_s3(user_input, response); put is what s3.put_object does.
\* Gives the return value, the bucket afterwards and the Interaction built.
save_to_s3(b, user_input, response, put) ==
    IF ~cfg.s3
    THEN [ret |-> FALSE, bucket |-> b, interaction |-> NoInteraction]
    ELSE LET timestamp == FormatTimestamp(now)
             filename == "interactions/" \o timestamp \o ".json"
             interaction == [timestamp |-> timestamp, input |-> user_input,
                             response |-> response]
         IN  IF put = "ok"
             THEN [ret |-> TRUE,
                   bucket |-> PutObject(b, filename, JsonDumps(interaction)),
                   interaction |-> interaction]
             ELSE [ret |-> FALSE, bucket |-> b, interaction |-> interaction]

\* sorted(objs, key=LastModified, reverse=True): a stable sort, elements with
\* equal LastModified keep the order they have in objs
RECURSIVE NewestFirst(_)
NewestFirst(objs) ==
    IF objs = <<>> THEN <<>>
    ELSE InsertNewest(Head(objs), NewestFirst(Tail(objs)))

\* The loop of load_history: an object whose get_object fails is skipped
RECURSIVE LoadEach(_, _)
LoadEach(objs, unreadable) ==
    IF objs = <<>> THEN <<>>
    ELSE (IF Head(objs).Key \in unreadable THEN <<>>
          ELSE <<JsonLoads(Head(objs).Body)>>)
         \o LoadEach(Tail(objs), unreadable)

\* load_history(limit); list is what s3.list_objects_v2 does, unreadable the
\* keys whose s3.get_object fails
load_history(b, limit, list, unreadable) ==
    IF ~cfg.s3 THEN <<>>
    ELSE IF list # "ok" THEN <<>>
    ELSE LET newest == NewestFirst(ListObjectsV2(b))
         IN  LoadEach(SubSeq(newest, 1, Min(limit, Len(newest))), unreadable)

\* The default of load_history's limit
DefaultLimit == 5

----------------------------------------------------------------------------
(* Inputs *)

Words == {"Hi", "time", "date", "weather", "in", "wiki", "play", "music",
          "search", "google"}

Examples == {"weather in Paris", "weather in Berlin", "Berlin weather",
             "weather New York", "play song Imagine", "What time is it",
             "wikipedia", "wikipedia Alan Turing", "hello", "hey you",
             "search cats"}

Blanks == {"", " ", "\t \n"}

\* Commands of up to MaxWords words, single spaced, and some with blanks around
Commands ==
    Blanks
    \cup {StrJoin(" ", ws) : ws \in UNION {[1..n -> Words] : n \in 1..MaxWords}}
    \cup {"  " \o w \o "\n" : w \in Words}
    \cup Examples

\* Which credentials the environment provides and which services came up
Configs == [s3 : BOOLEAN, engine : BOOLEAN, sp : BOOLEAN, recognizer : BOOLEAN,
            weather_key : BOOLEAN]

\* The weather key and the Spotify session: both there, or both missing
RouterConfigs == {c \in Configs : c.s3 /\ c.engine /\ c.recognizer
                                  /\ c.sp = c.weather_key}

\* Instants of the local clock: 00:00:59 and 13:04:59
Instants == {59, 47099}

NoResult == [res |-> Ret(""), rule |-> "", adapter |-> <<>>, calls |-> <<>>]
\* A recorder call: save_to_s3(input, response) with its return value ret and
\* the Interaction it built, or load_history(limit) with the storage faults it
\* met and the sequence it returned (items)
NoOp == [op |-> "none", input |-> "", response |-> "", ret |-> FALSE,
         interaction |-> NoInteraction, limit |-> 0, list |-> "ok",
         unreadable |-> {}, items |-> <<>>]

SessionIdle ==
    /\ listening = FALSE
    /\ microphone_enabled = TRUE
    /\ history = <<>>
    /\ textValue = ""
    /\ rerunRequested = FALSE
    /\ trigger = "start"
    /\ log = <<>>

RecorderIdle ==
    /\ saved = {}
    /\ lastOp = NoOp

----------------------------------------------------------------------------
(* The router on its own: one call of process_command on each input *)

RouterInit ==
    /\ cfg \in RouterConfigs
    /\ now \in Instants
    /\ s3now = 0
    /\ bucket = {}
    /\ pc = "call"
    /\ command \in Commands
    /\ outcome = "ok"
    /\ result = NoResult
    /\ SessionIdle
    /\ RecorderIdle

CallProcessCommand ==
    /\ pc = "call"
    /\ \E out \in Outcomes :
        /\ outcome' = out
        /\ result' = process_command(command, out)
    /\ pc' = "returned"
    /\ UNCHANGED <<cfg, now, s3now, bucket, command, sessionVars, recorderVars>>

RouterNext == CallProcessCommand

SpecRouter == RouterInit /\ [][RouterNext]_vars

----------------------------------------------------------------------------
(* The recorder on its own: any sequence of save_to_s3 and load_history      *)
(* calls, while the two clocks advance                                       *)

\* (user_input, response) pairs handed to save_to_s3
Pairs == {<<"hi", "Hello! How can I help?">>,
          <<"say \"a\\b\"\n", "Searching Google for: say \"a\\b\"">>}

RecorderConfigs == {c \in Configs : c.engine /\ c.recognizer /\ c.sp /\ c.weather_key}

RouterIdle ==
    /\ pc = "idle"
    /\ command = ""
    /\ outcome = "ok"
    /\ result = NoResult

RecorderInit ==
    /\ cfg \in RecorderConfigs
    /\ now = 0
    /\ s3now = 0
    /\ bucket = {}
    /\ RouterIdle
    /\ SessionIdle
    /\ RecorderIdle

SaveToS3 ==
    \E p \in Pairs, put \in {"ok", "error"} :
        LET r == save_to_s3(bucket, p[1], p[2], put)
        IN  /\ bucket' = r.bucket
            /\ saved' = IF r.ret THEN saved \cup {r.interaction} ELSE saved
            /\ lastOp' = [NoOp EXCEPT !.op = "save_to_s3", !.input = p[1],
                                       !.response = p[2], !.ret = r.ret,
                                       !.interaction = r.interaction]
            /\ UNCHANGED <<cfg, now, s3now, routerVars, sessionVars>>

LoadHistory ==
    \E limit \in {1, DefaultLimit}, list \in {"ok", "error"},
       unreadable \in {{}} \cup {{o.Key} : o \in bucket} :
        /\ lastOp' = [NoOp EXCEPT !.op = "load_history", !.limit = limit,
                                   !.list = list, !.unreadable = unreadable,
                                   !.items = load_history(bucket, limit, list,
                                                          unreadable)]
        /\ UNCHANGED <<cfg, now, s3now, bucket, saved, routerVars, sessionVars>>

\* A second passes on the local clock
TickLocal ==
    /\ now < MaxClock
    /\ now' = now + 1
    /\ UNCHANGED <<cfg, s3now, bucket, routerVars, sessionVars, recorderVars>>

\* A second passes on the storage service's clock
TickStorage ==
    /\ s3now < MaxClock
    /\ s3now' = s3now + 1
    /\ UNCHANGED <<cfg, now, bucket, routerVars, sessionVars, recorderVars>>

RecorderNext == SaveToS3 \/ LoadHistory \/ TickLocal \/ TickStorage

SpecRecorder == RecorderInit /\ [][RecorderNext]_vars

----------------------------------------------------------------------------
(* The session surface: main() runs from top to bottom on every UI event    *)
(* and on every st.rerun()                                                  *)

\* An entry of the log of a script run
Ev(op, a, b) == [op |-> op, a |-> a, b |-> b]

Emit(R, op, a, b) == [R EXCEPT !.log = Append(@, Ev(op, a, b))]

\* st.rerun() in a running script raises RerunException
StRerun == Raise("RerunException")

\* What the microphone picks up: a recognized text, or nothing usable
Heard == {[kind |-> "text", text |-> "hi"], [kind |-> "timeout", text |-> ""],
          [kind |-> "unintelligible", text |-> ""],
          [kind |-> "request_error", text |-> ""]}

\* The try block of recognize_speech; mic is what opening sr.Microphone() does
RecognizeSpeechBody(R, mic, heard) ==
    IF mic # "ok"
    THEN [R |-> R, res |-> Raise("OSError")]
    ELSE LET R1 == Emit([R EXCEPT !.listening = TRUE], "st.rerun", "listening=True", "")
         IN  IF StRerun.kind = "raise"
             THEN [R |-> R1, res |-> StRerun]
             ELSE LET R2 == Emit(Emit(R1, "recognizer.adjust_for_ambient_noise", "", ""),
                                 "recognizer.listen",
                                 IF R1.listening THEN "listening=True"
                                 ELSE "listening=False", "")
                  IN  CASE heard.kind = "timeout"
                             -> [R |-> R2, res |-> Raise("WaitTimeoutError")]
                        [] heard.kind = "unintelligible"
                             -> [R |-> Emit(R2, "st.sidebar.warning",
                                            "Could not understand audio", ""),
                                 res |-> Ret("")]
                        [] heard.kind = "request_error"
                             -> [R |-> Emit(R2, "st.sidebar.error",
                                            "Speech recognition error", ""),
                                 res |-> Ret("")]
                        [] OTHER
                             -> [R |-> Emit(R2, "st.sidebar.success", heard.text, ""),
                                 res |-> Ret(heard.text)]

\* The except clauses of recognize_speech, in order
RecognizeSpeechExcept(b) ==
    IF b.res.kind = "return" THEN b
    ELSE IF IsInstance(b.res.value, "WaitTimeoutError")
         THEN [R |-> Emit(b.R, "st.sidebar.warning", "Listening timed out", ""),
               res |-> Ret("")]
    ELSE IF IsInstance(b.res.value, "Exception")
         THEN [R |-> [Emit(b.R, "st.sidebar.error", "Microphone error", "")
                        EXCEPT !.microphone_enabled = FALSE],
               res |-> Ret("")]
    ELSE b

\* The finally clause of recognize_speech: an exception its st.rerun() raises
\* replaces the return value or the exception on its way out
RecognizeSpeechFinally(h) ==
    LET R1 == Emit([h.R EXCEPT !.listening = FALSE], "st.rerun", "listening=False", "")
    IN  IF StRerun.kind = "raise"
        THEN [R |-> R1, res |-> StRerun]
        ELSE [R |-> R1, res |-> h.res]

\* recognize_speech(); None is the empty text, as false as it
recognize_speech(R, mic, heard) ==
    LET R0 == Emit(R, "recognize_speech", "", "")
    IN  IF ~cfg.recognizer
        THEN [R |-> Emit(R0, "st.error", "Speech recognition not available", ""),
              res |-> Ret("")]
        ELSE RecognizeSpeechFinally(
                 RecognizeSpeechExcept(RecognizeSpeechBody(R0, mic, heard)))

\* speak(text)
speak(R, text) ==
    IF ~cfg.engine
    THEN Emit(R, "st.warning", "Text-to-speech engine not available", "")
    ELSE Emit(R, "speak", text, "")

\* What storage does during a script run: nothing wrong, put_object fails or
\* list_objects_v2 fails
StorageFaults == {"none", "put", "list"}

\* load_history() as main calls it
LoadDefault(b, fault) ==
    load_history(b, DefaultLimit, IF fault = "list" THEN "error" ELSE "ok", {})

\* The body of "if user_input:" under the voice button and under the text box
HandleInput(R, user_input, out, fault) ==
    LET p == process_command(user_input, out)
    IN  IF p.res.kind = "raise"
        THEN [Emit(R, "process_command", user_input, "") EXCEPT !.stop = TRUE]
        ELSE
        LET response == p.res.value
            R1 == speak(Emit(R, "process_command", user_input, response), response)
            sv == save_to_s3(R1.bucket, user_input, response,
                             IF fault = "put" THEN "error" ELSE "ok")
            R2 == [Emit(R1, "save_to_s3", user_input, response)
                     EXCEPT !.bucket = sv.bucket]
        IN  IF sv.ret
            THEN [Emit(Emit([R2 EXCEPT !.history = LoadDefault(sv.bucket, fault)],
                            "load_history", "", ""),
                       "st.rerun", "", "")
                    EXCEPT !.stop = TRUE]
            ELSE R2

\* The body of a quick-action button
QuickAction(R, cmd, out) ==
    LET p == process_command(cmd, out)
    IN  IF p.res.kind = "raise"
        THEN [Emit(R, "process_command", cmd, "") EXCEPT !.stop = TRUE]
        ELSE speak(Emit(R, "process_command", cmd, p.res.value), p.res.value)

\* if st.button("Voice Command", ...)
VoiceSection(R, ev) ==
    IF ev.kind # "voice" THEN R
    ELSE LET r == recognize_speech(R, ev.mic, ev.heard)
         IN  IF r.res.kind = "raise" THEN [r.R EXCEPT !.stop = TRUE]
             ELSE IF r.res.value # ""
                  THEN HandleInput(r.R, r.res.value, ev.out, ev.fault)
                  ELSE r.R

\* user_input = st.text_input("Type command:"); if user_input: ...
TextSection(R, ev) ==
    IF R.stop \/ ev.text = "" THEN R
    ELSE HandleInput(R, ev.text, ev.out, ev.fault)

\* The four quick-action buttons
QuickSection(R, ev) ==
    IF R.stop THEN R
    ELSE CASE ev.kind = "time" -> QuickAction(R, "time", ev.out)
           [] ev.kind = "date" -> QuickAction(R, "date", ev.out)
           [] ev.kind = "weather" -> QuickAction(R, "weather " \o ev.arg, ev.out)
           [] ev.kind = "search" -> QuickAction(R, "search " \o ev.arg, ev.out)
           [] OTHER -> R

\* if st.session_state.listening: st.markdown(...)
IndicatorSection(R) ==
    IF R.stop \/ ~R.listening THEN R
    ELSE Emit(R, "listening_indicator", "", "")

\* main() after the session state is set up, on UI event ev
main(R, ev) ==
    IndicatorSection(QuickSection(TextSection(VoiceSection(R, ev), ev), ev))

\* The voice button is clickable
VoiceButtonAlwaysEnabled == TRUE

VoiceButtonEnabled == microphone_enabled

SessionTexts == {"", "hi"}
Cities == {"New York", "Berlin"}
Searches == {"", "cats"}
SessionOutcomes == {"ok", "transport"}

NoEvent == [kind |-> "rerun", text |-> "", arg |-> "", out |-> "ok", mic |-> "ok",
            heard |-> [kind |-> "timeout", text |-> ""],
            fault |-> "none"]

\* One script run from session state (l, m, h) with the widgets as ev says
ScriptRun(l, m, h, ev) ==
    \E R \in {main([listening |-> l, microphone_enabled |-> m, history |-> h,
                     bucket |-> bucket, log |-> <<>>, stop |-> FALSE], ev)} :
        /\ listening' = R.listening
        /\ microphone_enabled' = R.microphone_enabled
        /\ history' = R.history
        /\ bucket' = R.bucket
        /\ log' = R.log
        /\ rerunRequested' = R.stop
        /\ trigger' = ev.kind
        /\ textValue' = ev.text
        /\ UNCHANGED <<cfg, now, s3now, routerVars, recorderVars>>

Run(ev) == ScriptRun(listening, microphone_enabled, history, ev)

SessionConfigs == {c \in Configs : c.sp /\ c.weather_key /\ c.engine}

SessionInit ==
    /\ cfg \in SessionConfigs
    /\ now = 0
    /\ s3now = 0
    /\ bucket = {}
    /\ RouterIdle
    /\ SessionIdle
    /\ RecorderIdle

\* The user clicks the voice button
VoiceCommand ==
    /\ VoiceButtonEnabled
    /\ \E mic \in {"ok", "error"}, heard \in Heard, fault \in StorageFaults :
        Run([NoEvent EXCEPT !.kind = "voice", !.text = textValue, !.mic = mic,
                            !.heard = heard, !.fault = fault])

\* The user enters a new text in the command box
TextCommand ==
    \E v \in SessionTexts \ {textValue}, fault \in StorageFaults :
        Run([NoEvent EXCEPT !.kind = "text", !.text = v, !.fault = fault])

QuickTime ==
    \E fault \in StorageFaults :
        Run([NoEvent EXCEPT !.kind = "time", !.text = textValue, !.fault = fault])

QuickDate ==
    \E fault \in StorageFaults :
        Run([NoEvent EXCEPT !.kind = "date", !.text = textValue, !.fault = fault])

QuickWeather ==
    \E city \in Cities, out \in SessionOutcomes, fault \in StorageFaults :
        Run([NoEvent EXCEPT !.kind = "weather", !.text = textValue, !.arg = city,
                            !.out = out, !.fault = fault])

QuickSearch ==
    \E q \in Searches, out \in SessionOutcomes, fault \in StorageFaults :
        Run([NoEvent EXCEPT !.kind = "search", !.text = textValue, !.arg = q,
                            !.out = out, !.fault = fault])

\* The run a st.rerun() asked for
Rerun ==
    /\ rerunRequested
    /\ \E fault \in StorageFaults :
        Run([NoEvent EXCEPT !.text = textValue, !.fault = fault])

\* The page is opened anew: a fresh session state, history loaded from storage
NewSession ==
    \E fault \in StorageFaults \ {"put"} :
        ScriptRun(FALSE, TRUE, LoadDefault(bucket, fault),
                  [NoEvent EXCEPT !.kind = "new_session"])

Next ==
    \/ VoiceCommand
    \/ TextCommand
    \/ QuickTime
    \/ QuickDate
    \/ QuickWeather
    \/ QuickSearch
    \/ Rerun
    \/ NewSession
    \/ TickLocal
    \/ TickStorage

Spec == SessionInit /\ [][Next]_vars

----------------------------------------------------------------------------
(* Claims about the router, under SpecRouter *)

Returned == pc = "returned"

\* The rule table of the specification, in its declared order
RuleOrder == <<"greeting", "time", "date", "weather", "wikipedia", "music",
               "search", "default">>

HasGreeting(c) == StrIn("hello", c) \/ StrIn("hi", c) \/ StrIn("hey", c)

RuleMatches(r, c) ==
    CASE r = "greeting" -> HasGreeting(c)
      [] r = "time" -> StrIn("time", c)
      [] r = "date" -> StrIn("date", c)
      [] r = "weather" -> StrIn("weather", c)
      [] r = "wikipedia" -> StrIn("wikipedia", c) \/ StrIn("wiki", c)
      [] r = "music" -> StrIn("play", c) /\ (StrIn("song", c) \/ StrIn("music", c))
      [] r = "search" -> StrIn("search", c) /\ StrIn("google", c)
      [] OTHER -> TRUE

FirstMatch(c) ==
    RuleOrder[CHOOSE i \in 1..Len(RuleOrder) :
                /\ RuleMatches(RuleOrder[i], c)
                /\ \A j \in 1..(i - 1) : ~RuleMatches(RuleOrder[j], c)]

\* The adapter a rule may delegate to ("" for a rule that answers by itself)
RuleAdapter(r) ==
    CASE r = "weather" -> "get_weather"
      [] r = "wikipedia" -> "search_wikipedia"
      [] r = "music" -> "play_spotify"
      [] r \in {"search", "default"} -> "search_google"
      [] OTHER -> ""

\* The adapter an external call belongs to
CallOwner(api) ==
    CASE api = "requests.get" -> "get_weather"
      [] api = "wikipedia.summary" -> "search_wikipedia"
      [] api \in {"sp.search", "sp.start_playback"} -> "play_spotify"
      [] OTHER -> "search_google"

IsDigit(ch) == \E i \in 1..10 : Digits[i] = ch
DigitValue(ch) == (CHOOSE i \in 1..10 : Digits[i] = ch) - 1

\* s is HH:MM, a time of the 24-hour clock
IsHHMM(s) ==
    /\ Len(s) = 5
    /\ CharAt(s, 3) = ":"
    /\ \A i \in {1, 2, 4, 5} : IsDigit(CharAt(s, i))
    /\ 10 * DigitValue(CharAt(s, 1)) + DigitValue(CharAt(s, 2)) < 24
    /\ 10 * DigitValue(CharAt(s, 4)) + DigitValue(CharAt(s, 5)) < 60

TimePrefix == "The time is "

\* C1: every non-empty normalized command is handled by the first rule of the
\* declared order that matches it; at most one adapter is invoked, the one of
\* that rule, and every external call is that adapter's; "weather music play"
\* goes to the weather adapter; a command containing "time" and no greeting
\* keyword is answered with the current time as HH:MM.
C1_FirstMatchWins ==
    (Returned /\ Normalize(command) # "") =>
        LET c == Normalize(command)
            v == result.res.value
        IN  /\ result.rule = FirstMatch(c)
            /\ Len(result.adapter) <= 1
            /\ \A i \in DOMAIN result.adapter :
                    result.adapter[i][1] = RuleAdapter(FirstMatch(c))
            /\ \A i \in DOMAIN result.calls :
                    CallOwner(result.calls[i][1]) = RuleAdapter(FirstMatch(c))
            /\ (RuleAdapter(FirstMatch(c)) = "" => result.adapter = <<>>)
            /\ (command = "weather music play" =>
                    /\ Len(result.adapter) = 1
                    /\ result.adapter[1][1] = "get_weather")
            /\ (StrIn("time", c) /\ ~HasGreeting(c) =>
                    /\ result.res.kind = "return"
                    /\ SubSeq(v, 1, Len(TimePrefix)) = TimePrefix
                    /\ IsHHMM(SubSeq(v, Len(TimePrefix) + 1, Len(v)))
                    /\ SubSeq(v, Len(TimePrefix) + 1, Len(v))
                         = TwoDigits((now \div 3600) % 24) \o ":"
                             \o TwoDigits((now \div 60) % 60))

\* C1 witness: a command matching the weather rule and the music rule was
\* routed, and only the weather adapter ran.
C1_Witness ==
    /\ Returned
    /\ command = "weather music play"
    /\ result.rule = "weather"
    /\ result.adapter = << <<"get_weather", "music play">> >>

RetryMessage == "I didn't catch that. Please try again."
InvalidMessage == "Please provide a valid command"

\* C2 as stated: every empty and every whitespace-only input is answered with
\* the one fixed retry message, and no adapter is invoked.
C2_OneRetryMessage ==
    (Returned /\ Normalize(command) = "") =>
        /\ result.res = Ret(RetryMessage)
        /\ result.adapter = <<>>
        /\ result.calls = <<>>

\* C2 amended: a whitespace-only input is answered with the fixed retry
\* message and the empty input with the fixed "valid command" message; no
\* adapter is invoked for either.
C2_BlankInputs ==
    (Returned /\ Normalize(command) = "") =>
        /\ command # "" => result.res = Ret(RetryMessage)
        /\ command = "" => result.res = Ret(InvalidMessage)
        /\ result.adapter = <<>>
        /\ result.calls = <<>>

\* C2 witness: a whitespace-only input was answered.
C2_Witness ==
    /\ Returned
    /\ command = "\t \n"
    /\ result.rule = "blank"

\* C3: process_command always returns a text; no exception leaves it or an
\* adapter, whatever the provider does; an adapter without its credentials
\* returns its fixed text and makes no external call.
C3_NoExceptionEscapes ==
    Returned =>
        /\ result.res.kind = "return"
        /\ result.res.value \in STRING
        /\ (result.rule = "weather" /\ ~cfg.weather_key) =>
                /\ result.res.value = "Weather API not configured"
                /\ result.calls = <<>>
        /\ (result.rule = "music" /\ result.adapter # <<>> /\ ~cfg.sp) =>
                /\ result.res.value = "Spotify not connected"
                /\ result.calls = <<>>

\* C3 witness: a malformed weather payload came back as an error text.
C3_Witness ==
    /\ Returned
    /\ result.rule = "weather"
    /\ cfg.weather_key
    /\ outcome = "malformed"
    /\ result.res = Ret("Error processing weather data: <IndexError>")
    /\ result.calls # <<>>

\* The words of s: its maximal runs of non-whitespace characters
RECURSIVE SplitWords(_)
SplitWords(s) ==
    LET t == LStrip(s)
    IN  IF t = "" THEN <<>>
        ELSE LET stops == {i \in 1..Len(t) : CharAt(t, i) \in Whitespace}
                 n == IF stops = {} THEN Len(t) + 1
                      ELSE CHOOSE i \in stops : \A j \in stops : i <= j
             IN  <<SubSeq(t, 1, n - 1)>> \o SplitWords(SubSeq(t, n, Len(t)))

RECURSIVE DropWords(_, _)
DropWords(ws, drop) ==
    IF ws = <<>> THEN <<>>
    ELSE IF StrLower(Head(ws)) \in drop THEN DropWords(Tail(ws), drop)
    ELSE <<StrLower(Head(ws))>> \o DropWords(Tail(ws), drop)

\* C8 as stated: the city handed to get_weather is the command without the
\* words "weather" and "in", every other word intact (compared word by word,
\* letter case aside), and it is "New York" exactly when no word remains.
C8_CityIsCommandWithoutWords ==
    (Returned /\ result.rule = "weather") =>
        LET rest == DropWords(SplitWords(command), {"weather", "in"})
            city == result.adapter[1][2]
        IN  /\ rest # <<>> => SplitWords(StrLower(city)) = rest
            /\ rest = <<>> <=> city = "New York"

----------------------------------------------------------------------------
(* Claims about the recorder, under SpecRecorder *)

\* C4 as stated: with storage available, a save_to_s3 that returned True and
\* is followed immediately by load_history(1) makes it return exactly the
\* Interaction just written; without storage save_to_s3 returns False and
\* load_history returns the empty sequence.
C4_SaveThenRecentOne ==
    [][/\ (/\ lastOp.op = "save_to_s3"
           /\ lastOp.ret = TRUE
           /\ lastOp'.op = "load_history"
           /\ lastOp'.limit = 1
           /\ lastOp'.list = "ok"
           /\ lastOp'.unreadable = {})
          => lastOp'.items = <<lastOp.interaction>>
       /\ (~cfg.s3 /\ lastOp' # lastOp /\ lastOp'.op = "save_to_s3")
          => lastOp'.ret = FALSE
       /\ (~cfg.s3 /\ lastOp' # lastOp /\ lastOp'.op = "load_history")
          => lastOp'.items = <<>>]_vars

\* C5 as stated: every Interaction a successful save_to_s3 stored is still in
\* storage with its timestamp, input and response.
C5_StoredInteractionsStay ==
    \A i \in saved : \E o \in bucket : JsonLoads(o.Body) = i

----------------------------------------------------------------------------
(* Claims about the session, under Spec *)

Logged(op, a) == \E i \in DOMAIN log : log[i].op = op /\ log[i].a = a

\* The command the last UI event was meant to dispatch, "" if none
Dispatched ==
    CASE trigger = "time" -> {"time"}
      [] trigger = "date" -> {"date"}
      [] trigger = "weather" -> {"weather " \o c : c \in Cities}
      [] trigger = "search" -> {"search " \o q : q \in Searches}
      [] trigger = "text" /\ textValue # "" -> {textValue}
      [] trigger = "voice" -> {h.text : h \in {g \in Heard : Logged("st.sidebar.success", g.text)}}
      [] OTHER -> {}

\* C6 as stated: whichever of the six controls triggered a command, the run
\* passes it to process_command and then passes that input and the response
\* to save_to_s3.
C6_EveryControlRoutesAndRecords ==
    (trigger \in {"voice", "text", "time", "date", "weather", "search"}
        /\ Dispatched # {})
    => \E i \in DOMAIN log, j \in DOMAIN log :
        /\ i < j
        /\ log[i].op = "process_command"
        /\ log[i].a \in Dispatched
        /\ log[j] = Ev("save_to_s3", log[i].a, log[i].b)

\* C7 as stated: in a voice run whose microphone opened, the listening
\* indicator is rendered with the flag set before recognizer.listen is
\* entered, recognizer.listen is performed, and the flag is false when
\* recognize_speech is left.
C7_IndicatorThenCapture ==
    (trigger = "voice" /\ Logged("st.rerun", "listening=True"))
    => /\ \E i \in DOMAIN log, j \in DOMAIN log :
            /\ i < j
            /\ log[i].op = "listening_indicator"
            /\ log[j].op = "recognizer.listen"
            /\ log[j].a = "listening=True"
       /\ ~listening

\* C9 as stated: the cached history holds at most DefaultLimit Interactions,
\* their timestamps never increase along it, and every Interaction in storage
\* has a non-empty input.
C9_HistoryNewestFirst ==
    /\ Len(history) <= DefaultLimit
    /\ \A i \in DOMAIN history, j \in DOMAIN history :
            i < j => ~StrLess(history[i].timestamp, history[j].timestamp, 1)
    /\ \A o \in bucket : JsonLoads(o.Body).input # ""

\* C10: microphone_enabled starts true; within a session no run sets it back
\* to true; only a voice run that ends in the generic microphone exception
\* clears it; and once it is false no run enters recognize_speech.
C10_MicrophoneStaysDisabled ==
    /\ microphone_enabled = TRUE
    /\ [][/\ (trigger' # "new_session" /\ microphone_enabled')
                => microphone_enabled
          /\ (microphone_enabled /\ ~microphone_enabled')
                => /\ trigger' = "voice"
                   /\ \E i \in DOMAIN log' :
                        log'[i] = Ev("st.sidebar.error", "Microphone error", "")
          /\ (~microphone_enabled /\ sessionVars' # sessionVars
                /\ trigger' # "new_session")
                => \A i \in DOMAIN log' : log'[i].op # "recognize_speech"]_vars

\* C10 witness: the microphone is disabled and a later run of the same
\* session, a text command, has left it disabled.
C10_Witness ==
    /\ ~microphone_enabled
    /\ trigger = "text"
    /\ Logged("process_command", "hi")

============================================================================
